---- MODULE Spec2Model ----
(***************************************************************************)
(* Slot-filling extraction and dialogue routing of the astrology chat      *)
(* front-end (src/app.py).                                                 *)
(*                                                                         *)
(* Text.  A Python str that the program inspects character by character    *)
(* (the user's message, the place cut out of it) is a sequence of          *)
(* characters.  A Hangul syllable is written "h_" followed by its          *)
(* jamo-by-jamo romanisation: "h_seo","h_ul" is 서울, "h_nyeon" is 년.     *)
(* A str literal of the program that is only passed around (a prompt, a    *)
(* gender or calendar value) and a str built by an f-string are TLA+       *)
(* strings, romanised in the same way.                                     *)
(***************************************************************************)
EXTENDS Integers, Sequences, FiniteSets, TLC

\* ------------------------------------------------------------------------
\* Character classes of the regular expressions
\* ------------------------------------------------------------------------

\* [가-힣]: the Hangul syllables that occur in the program's literals and in
\* the messages of the model.
Hangul ==
    { "h_al", "h_an", "h_ban", "h_bo", "h_bu", "h_bug", "h_bun", "h_bwa",
      "h_byeol", "h_cha", "h_cham", "h_chang", "h_cheon", "h_chu", "h_chul",
      "h_chung", "h_dae", "h_do", "h_doen", "h_e", "h_eo", "h_eobs", "h_eog",
      "h_eu", "h_eum", "h_ga", "h_gang", "h_geu", "h_geum", "h_gi", "h_gim",
      "h_gu", "h_gung", "h_gwang", "h_gyeong", "h_hab", "h_hae", "h_haeng",
      "h_hag", "h_han", "h_hang", "h_hu", "h_hwa", "h_hyeon", "h_i", "h_il",
      "h_in", "h_ja", "h_je", "h_jeom", "h_jeon", "h_jeong", "h_joh",
      "h_jong", "h_ju", "h_jwo", "h_jyo", "h_man", "h_mo", "h_mun", "h_na",
      "h_nae", "h_nal", "h_nam", "h_nan", "h_nass", "h_ne", "h_neul",
      "h_nyeon", "h_nyeong", "h_o", "h_po", "h_ra", "h_re", "h_reoh",
      "h_reul", "h_ri", "h_ro", "h_ryeo", "h_ryeog", "h_sa", "h_saeng",
      "h_san", "h_se", "h_seo", "h_seog", "h_seong", "h_si", "h_ssi", "h_su",
      "h_sug", "h_tae", "h_teu", "h_ui", "h_ul", "h_un", "h_wol", "h_won",
      "h_yang", "h_yeo", "h_yo" }

LatinLower ==
    { "a", "b", "c", "d", "e", "f", "g", "h", "i", "j", "k", "l", "m",
      "n", "o", "p", "q", "r", "s", "t", "u", "v", "w", "x", "y", "z" }

\* str.lower() on one character: the upper-case Latin letters and their
\* lower-case forms; every other character is left as it is.
LowerOf ==
    [ A |-> "a", B |-> "b", C |-> "c", D |-> "d", E |-> "e", F |-> "f",
      G |-> "g", H |-> "h", I |-> "i", J |-> "j", K |-> "k", L |-> "l",
      M |-> "m", N |-> "n", O |-> "o", P |-> "p", Q |-> "q", R |-> "r",
      S |-> "s", T |-> "t", U |-> "u", V |-> "v", W |-> "w", X |-> "x",
      Y |-> "y", Z |-> "z" ]

LatinUpper == DOMAIN LowerOf

\* [가-힣a-zA-Z]
Letter == Hangul \cup LatinLower \cup LatinUpper

\* \d
Digit == { "0", "1", "2", "3", "4", "5", "6", "7", "8", "9" }

\* \s
Whitespace == { " " }

\* [년\-/. ]
YearSep == { "h_nyeon", "-", "/", ".", " " }

\* [월\-/. ]
MonthSep == { "h_wol", "-", "/", ".", " " }

\* ------------------------------------------------------------------------
\* str operations
\* ------------------------------------------------------------------------

lower(text) ==
    [ i \in 1..Len(text) |->
        IF text[i] \in LatinUpper THEN LowerOf[text[i]] ELSE text[i] ]

RECURSIVE lstrip(_)
lstrip(text) ==
    IF text # <<>> /\ Head(text) \in Whitespace
    THEN lstrip(Tail(text))
    ELSE text

RECURSIVE rstrip(_)
rstrip(text) ==
    IF text # <<>> /\ text[Len(text)] \in Whitespace
    THEN rstrip(SubSeq(text, 1, Len(text) - 1))
    ELSE text

strip(text) == rstrip(lstrip(text))

\* pat in text
Contains(text, pat) ==
    \E i \in 1..(Len(text) - Len(pat) + 1) :
        SubSeq(text, i, i + Len(pat) - 1) = pat

\* any(text contains words[k])
ContainsAny(text, words) ==
    \E k \in 1..Len(words) : Contains(text, words[k])

\* the pattern pat stands in text at position i
At(text, i, pat) ==
    /\ i >= 1
    /\ i + Len(pat) - 1 <= Len(text)
    /\ SubSeq(text, i, i + Len(pat) - 1) = pat

\* \d{n} at position i
DigitsAt(text, i, n) ==
    /\ i >= 1
    /\ i + n - 1 <= Len(text)
    /\ \A k \in i..(i + n - 1) : text[k] \in Digit

\* the end (exclusive) of the longest run of characters of class cls that
\* starts at position i: what a greedy cls* consumes
RECURSIVE RunEnd(_, _, _)
RunEnd(text, i, cls) ==
    IF i <= Len(text) /\ text[i] \in cls
    THEN RunEnd(text, i + 1, cls)
    ELSE i

\* int() of a string of decimal digits
DigitValue ==
    [ c \in Digit |->
        CASE c = "0" -> 0 [] c = "1" -> 1 [] c = "2" -> 2 [] c = "3" -> 3
          [] c = "4" -> 4 [] c = "5" -> 5 [] c = "6" -> 6 [] c = "7" -> 7
          [] c = "8" -> 8 [] c = "9" -> 9 ]

RECURSIVE int(_)
int(ds) ==
    IF ds = <<>> THEN 0
    ELSE 10 * int(SubSeq(ds, 1, Len(ds) - 1)) + DigitValue[ds[Len(ds)]]

DigitChar == << "0", "1", "2", "3", "4", "5", "6", "7", "8", "9" >>

\* str() of a natural number
RECURSIVE str(_)
str(n) ==
    IF n < 10 THEN DigitChar[n + 1]
    ELSE str(n \div 10) \o DigitChar[(n % 10) + 1]

\* the format specification :02d
Fmt02d(n) == IF n < 10 THEN "0" \o str(n) ELSE str(n)

\* a character sequence interpolated into an f-string
RECURSIVE Join(_)
Join(cs) == IF cs = <<>> THEN "" ELSE Head(cs) \o Join(Tail(cs))

\* ------------------------------------------------------------------------
\* Literals of the program
\* ------------------------------------------------------------------------

None == "None"

NAMSEONG == "namseong"      \* "남성"
YEOSEONG == "yeoseong"      \* "여성"
YANGRYEOG == "yangryeog"    \* "양력"
EUMRYEOG == "eumryeog"      \* "음력"

KNOWN_PLACES ==
    << <<"h_seo", "h_ul">>, <<"h_bu", "h_san">>, <<"h_dae", "h_gu">>,
       <<"h_in", "h_cheon">>, <<"h_gwang", "h_ju">>, <<"h_dae", "h_jeon">>,
       <<"h_ul", "h_san">>, <<"h_se", "h_jong">>, <<"h_gyeong", "h_gi">>,
       <<"h_gang", "h_won">>, <<"h_chung", "h_bug">>, <<"h_chung", "h_nam">>,
       <<"h_jeon", "h_bug">>, <<"h_jeon", "h_nam">>, <<"h_gyeong", "h_bug">>,
       <<"h_gyeong", "h_nam">>, <<"h_je", "h_ju">>, <<"h_gim", "h_hae">>,
       <<"h_su", "h_won">>, <<"h_chang", "h_won">>, <<"h_jeon", "h_ju">>,
       <<"h_po", "h_hang">> >>

\* "일반으로", "api 없이", "대화만"
GeneralModePhrases ==
    << <<"h_il", "h_ban", "h_eu", "h_ro">>,
       <<"a", "p", "i", " ", "h_eobs", "h_i">>,
       <<"h_dae", "h_hwa", "h_man">> >>

\* "기억된 정보", "기억한 출생 정보"
RecallPhrases ==
    << <<"h_gi", "h_eog", "h_doen", " ", "h_jeong", "h_bo">>,
       <<"h_gi", "h_eog", "h_han", " ", "h_chul", "h_saeng", " ",
         "h_jeong", "h_bo">> >>

\* "남성", "남자", "남", "man", "male", "boy"
MaleWords ==
    << <<"h_nam", "h_seong">>, <<"h_nam", "h_ja">>, <<"h_nam">>,
       <<"m", "a", "n">>, <<"m", "a", "l", "e">>, <<"b", "o", "y">> >>

\* "여성", "여자", "여", "woman", "female", "girl"
FemaleWords ==
    << <<"h_yeo", "h_seong">>, <<"h_yeo", "h_ja">>, <<"h_yeo">>,
       <<"w", "o", "m", "a", "n">>, <<"f", "e", "m", "a", "l", "e">>,
       <<"g", "i", "r", "l">> >>

\* (에서|출생|태어났|태어난)
PlaceSuffixes ==
    << <<"h_e", "h_seo">>, <<"h_chul", "h_saeng">>,
       <<"h_tae", "h_eo", "h_nass">>, <<"h_tae", "h_eo", "h_nan">> >>

\* the keywords of is_astrology_query
AstrologyKeywords ==
    << <<"h_un", "h_se">>, <<"h_o", "h_neul">>, <<"h_jeom", "h_seong">>,
       <<"h_gung", "h_hab">>, <<"h_cha", "h_teu">>,
       <<"h_byeol", "h_ja", "h_ri">>, <<"h_haeng", "h_seong">>,
       <<"h_chul", "h_saeng">>, <<"h_sa", "h_ju">>, <<"h_gung", "h_do">>,
       <<"h_bun", "h_seog", "h_hae", " ", "h_jwo">>,
       <<"h_bun", "h_seog", "h_hae", "h_ju", "h_se", "h_yo">>,
       <<"h_al", "h_ryeo", "h_jwo">>, <<"h_cheon", "h_mun", "h_do">>,
       <<"h_ra", "h_si">>, <<"h_jeom", "h_seong", "h_hag">>,
       <<"h_chu", "h_cheon">> >>

\* "라시차트", "천문도", "라그나", "차트를 분석"
RasiKeywords ==
    << <<"h_ra", "h_si", "h_cha", "h_teu">>, <<"h_cheon", "h_mun", "h_do">>,
       <<"h_ra", "h_geu", "h_na">>,
       <<"h_cha", "h_teu", "h_reul", " ", "h_bun", "h_seog">> >>

OJEON == <<"h_o", "h_jeon">>    \* "오전"
OHU == <<"h_o", "h_hu">>        \* "오후"

\* ------------------------------------------------------------------------
\* Predicates on the message
\* ------------------------------------------------------------------------

is_general_mode_request(text) ==
    \/ Contains(text, GeneralModePhrases[1])
    \/ Contains(text, GeneralModePhrases[2])
    \/ Contains(text, GeneralModePhrases[3])

is_recall_request(text) ==
    \/ Contains(text, RecallPhrases[1])
    \/ Contains(text, RecallPhrases[2])

is_astrology_query(text) == ContainsAny(lower(text), AstrologyKeywords)

is_rasi_analysis_request(text) == ContainsAny(lower(text), RasiKeywords)

ShortLimit == 10

is_short_response(text) == Len(strip(text)) < ShortLimit

\* ------------------------------------------------------------------------
\* Field extractors
\* ------------------------------------------------------------------------

extract_gender(text) ==
    IF ContainsAny(lower(text), MaleWords) THEN NAMSEONG
    ELSE IF ContainsAny(lower(text), FemaleWords) THEN YEOSEONG
    ELSE None

\* ([가-힣a-zA-Z]+)[\s]*(에서|출생|태어났|태어난) tried with group 1 being
\* text[i..j-1]: every character of it is a letter, and either the suffix
\* follows at once, or the group is the whole run of letters and the suffix
\* follows the white space after it.
PlaceMatchAt(text, i, j) ==
    /\ i < j
    /\ j <= RunEnd(text, i, Letter)
    /\ LET p == IF j = RunEnd(text, i, Letter)
                THEN RunEnd(text, j, Whitespace)
                ELSE j
       IN \E k \in 1..Len(PlaceSuffixes) : At(text, p, PlaceSuffixes[k])

\* re.search: the leftmost start, and from it the longest group 1 (the +
\* is greedy and gives characters back one at a time).
PlaceSearch(text) ==
    LET starts == { i \in 1..Len(text) :
                      \E j \in (i + 1)..(Len(text) + 1) :
                          PlaceMatchAt(text, i, j) }
    IN IF starts = {} THEN <<>>
       ELSE LET i == CHOOSE s \in starts : \A o \in starts : s <= o
                ends == { j \in (i + 1)..(Len(text) + 1) :
                            PlaceMatchAt(text, i, j) }
                j == CHOOSE e \in ends : \A o \in ends : e >= o
            IN SubSeq(text, i, j - 1)

\* the first known place that is a substring of the text
RECURSIVE FirstKnownPlace(_, _)
FirstKnownPlace(text, k) ==
    IF k > Len(KNOWN_PLACES) THEN <<>>
    ELSE IF Contains(text, KNOWN_PLACES[k]) THEN KNOWN_PLACES[k]
    ELSE FirstKnownPlace(text, k + 1)

\* None is the empty sequence: the caller only tests the result's truth
extract_place(text) ==
    IF PlaceSearch(text) # <<>> THEN PlaceSearch(text)
    ELSE FirstKnownPlace(text, 1)

NoMatch == [ matched |-> FALSE ]

\* (\d{4})[년\-/. ]+(\d{1,2})[월\-/. ]+(\d{1,2})[일\s]* with the year at i
DateMatchAt(text, i) ==
    IF ~DigitsAt(text, i, 4) THEN NoMatch
    ELSE
      LET a == RunEnd(text, i + 4, YearSep)
          \* \d{1,2} takes two digits if it can, one otherwise, and the
          \* month separator must follow
          mlens == { n \in {1, 2} :
                       /\ DigitsAt(text, a, n)
                       /\ RunEnd(text, a + n, MonthSep) > a + n
                       /\ DigitsAt(text, RunEnd(text, a + n, MonthSep), 1) }
      IN IF a = i + 4 \/ mlens = {} THEN NoMatch
         ELSE
           LET mlen == IF 2 \in mlens THEN 2 ELSE 1
               b == RunEnd(text, a + mlen, MonthSep)
               dlen == IF DigitsAt(text, b, 2) THEN 2 ELSE 1
           IN [ matched |-> TRUE,
                y |-> SubSeq(text, i, i + 3),
                m |-> SubSeq(text, a, a + mlen - 1),
                d |-> SubSeq(text, b, b + dlen - 1) ]

RECURSIVE DateSearchFrom(_, _)
DateSearchFrom(text, i) ==
    IF i > Len(text) THEN NoMatch
    ELSE IF DateMatchAt(text, i).matched THEN DateMatchAt(text, i)
    ELSE DateSearchFrom(text, i + 1)

date_match(text) == DateSearchFrom(text, 1)

\* \s*(\d{1,2})시(?:\s*(\d{1,2})분)? at position p, after the optional
\* marker ampm
HourMatchAt(text, p, ampm) ==
    LET q == RunEnd(text, p, Whitespace)
        hlens == { n \in {1, 2} :
                     DigitsAt(text, q, n) /\ At(text, q + n, <<"h_si">>) }
    IN IF hlens = {} THEN NoMatch
       ELSE
         LET hlen == IF 2 \in hlens THEN 2 ELSE 1
             s == RunEnd(text, q + hlen + 1, Whitespace)
             mmlens == { n \in {1, 2} :
                           DigitsAt(text, s, n)
                             /\ At(text, s + n, <<"h_bun">>) }
             mmlen == IF 2 \in mmlens THEN 2 ELSE 1
         IN [ matched |-> TRUE,
              ampm |-> ampm,
              h |-> SubSeq(text, q, q + hlen - 1),
              mm |-> IF mmlens = {} THEN <<>>
                     ELSE SubSeq(text, s, s + mmlen - 1) ]

\* (오전|오후)? is tried first with the marker, then without it
TimeMatchAt(text, i) ==
    IF At(text, i, OJEON) /\ HourMatchAt(text, i + 2, "ojeon").matched
    THEN HourMatchAt(text, i + 2, "ojeon")
    ELSE IF At(text, i, OHU) /\ HourMatchAt(text, i + 2, "ohu").matched
    THEN HourMatchAt(text, i + 2, "ohu")
    ELSE HourMatchAt(text, i, None)

RECURSIVE TimeSearchFrom(_, _)
TimeSearchFrom(text, i) ==
    IF i > Len(text) THEN NoMatch
    ELSE IF TimeMatchAt(text, i).matched THEN TimeMatchAt(text, i)
    ELSE TimeSearchFrom(text, i + 1)

time_match(text) == TimeSearchFrom(text, 1)

\* ------------------------------------------------------------------------
\* The messages of the model
\* ------------------------------------------------------------------------

\* "YYYY년 M월 D일"
DateText(y, m, d) ==
    y \o <<"h_nyeon", " ">> \o m \o <<"h_wol", " ">> \o d \o <<"h_il">>

BirthDates ==
    { DateText(<<"1", "9", "7", "6">>, <<"4">>, <<"2", "7">>),
      DateText(<<"2", "0", "0", "1">>, <<"1", "2">>, <<"0", "7">>) }

\* no time, " 오후 3시 5분"
TimeTexts ==
    { << >>,
      <<" ", "h_o", "h_hu", " ", "3", "h_si", " ", "5", "h_bun">> }

\* a birth date, a time or none, and " 사주"
DateMessages ==
    { d \o t \o <<" ", "h_sa", "h_ju">> : d \in BirthDates, t \in TimeTexts }

\* "1976년 4월 27일 14시 서울에서 출생한 여자 현숙이의 라시차트를 분석해 줘"
RasiExample ==
    <<"1", "9", "7", "6", "h_nyeon", " ", "4", "h_wol", " ", "2", "7",
      "h_il", " ", "1", "4", "h_si", " ", "h_seo", "h_ul", "h_e", "h_seo",
      " ", "h_chul", "h_saeng", "h_han", " ", "h_yeo", "h_ja", " ",
      "h_hyeon", "h_sug", "h_i", "h_ui", " ", "h_ra", "h_si", "h_cha",
      "h_teu", "h_reul", " ", "h_bun", "h_seog", "h_hae", " ", "h_jwo">>

\* "오늘 운세 봐줘"
FortuneToday ==
    <<"h_o", "h_neul", " ", "h_un", "h_se", " ", "h_bwa", "h_jwo">>

OtherMessages ==
    { <<"h_yeo", "h_seong">>,                              \* "여성"
      <<" ", "h_nam", "h_ja", " ">>,                       \* " 남자 "
      <<"h_bu", "h_san">>,                                 \* "부산"
      <<"h_seo", "h_ul", " ", "h_chul", "h_saeng">>,       \* "서울 출생"
      <<"1", "9", "9", "0", "-", "1", "-", "5">>,          \* "1990-1-5"
      <<"h_an", "h_nyeong">>,                              \* "안녕"
      \* "날씨가 참 좋네요 그렇죠"
      <<"h_nal", "h_ssi", "h_ga", " ", "h_cham", " ", "h_joh", "h_ne",
        "h_yo", " ", "h_geu", "h_reoh", "h_jyo">>,
      \* "내일 운세 알려줘"
      <<"h_nae", "h_il", " ", "h_un", "h_se", " ", "h_al", "h_ryeo",
        "h_jwo">>,
      \* "일반으로 해줘"
      <<"h_il", "h_ban", "h_eu", "h_ro", " ", "h_hae", "h_jwo">>,
      \* "api 없이 운세 알려줘"
      <<"a", "p", "i", " ", "h_eobs", "h_i", " ", "h_un", "h_se", " ",
        "h_al", "h_ryeo", "h_jwo">>,
      \* "기억된 정보"
      <<"h_gi", "h_eog", "h_doen", " ", "h_jeong", "h_bo">>,
      <<"h_o", "h_hu", " ", "3", "h_si">>,                 \* "오후 3시"
      <<"h_eum", "h_ryeog">>,                              \* "음력"
      <<"h_yang", "h_ryeog">> }                            \* "양력"

\* msg.content of the turns
Messages == DateMessages \cup {RasiExample, FortuneToday} \cup OtherMessages

\* datetime.now()
Clock == { 3 }

\* ------------------------------------------------------------------------
\* Relative-date resolver
\* ------------------------------------------------------------------------

\* datetime.now() is a day number whose weekday is its remainder modulo 7
\* (0 is Monday); the timestamp strftime makes of a moment is written as the
\* day number of that moment.
resolve_gochra_datetime(text, now) ==
    IF Contains(lower(text), <<"h_o", "h_neul">>) THEN now
    ELSE IF Contains(lower(text), <<"h_nae", "h_il">>) THEN now + 1
    ELSE IF Contains(lower(text), <<"h_mo", "h_re">>) THEN now + 2
    ELSE IF Contains(lower(text), <<"h_geum", "h_yo", "h_il">>)
    THEN now + ((4 - (now % 7)) % 7)
    ELSE now

\* ------------------------------------------------------------------------
\* What the program reads off a text
\* ------------------------------------------------------------------------

\* user_input of the turns
Texts == { strip(m) : m \in Messages }

\* Every predicate and extractor is a function of the text alone (the
\* resolver also of the clock).  Their values on the texts of the model are
\* tabulated once; Of[text].f is f(text).
TextFacts(text) ==
    [ is_general_mode_request |-> is_general_mode_request(text),
      is_recall_request |-> is_recall_request(text),
      is_short_response |-> is_short_response(text),
      is_astrology_query |-> is_astrology_query(text),
      is_rasi_analysis_request |-> is_rasi_analysis_request(text),
      date_match |-> date_match(text),
      time_match |-> time_match(text),
      extract_place |-> extract_place(text),
      extract_gender |-> extract_gender(text),
      eumryeog |-> Contains(text, <<"h_eum", "h_ryeog">>),     \* "음력" in
      resolve_gochra_datetime |->
          [ now \in Clock |-> resolve_gochra_datetime(text, now) ] ]

Of == [ text \in Texts |-> TextFacts(text) ]

\* ------------------------------------------------------------------------
\* dict operations
\* ------------------------------------------------------------------------

\* d[k] = v
Put(d, k, v) == [ x \in (DOMAIN d) \cup {k} |-> IF x = k THEN v ELSE d[x] ]

\* d.get(k, default)
Get(d, k, default) == IF k \in DOMAIN d THEN d[k] ELSE default

\* ------------------------------------------------------------------------
\* Geocoding adapter
\* ------------------------------------------------------------------------

FALLBACK_COORDINATES == "35.2721355,128.8452281"

\* What requests.get(...) and res.json() can do: raise, or deliver a JSON
\* value (a list of objects, or an object).
GeoResponses ==
    { [ kind |-> "network_error" ],
      [ kind |-> "malformed" ],
      [ kind |-> "list", items |-> <<>> ],
      [ kind |-> "list", items |-> << [ lat |-> "37.5666791",
                                        lon |-> "126.9782914" ] >> ],
      [ kind |-> "list", items |-> << [ display_name |-> "x" ] >> ],
      [ kind |-> "object", members |-> [ error |-> "x" ] ] }

\* The body of the try block: it returns a value, raises, or falls through.
GeoTryBody(place, resp) ==
    IF resp.kind = "network_error"
    THEN [ how |-> "raise", exc |-> "RequestException" ]
    ELSE IF resp.kind = "malformed"
    THEN [ how |-> "raise", exc |-> "JSONDecodeError" ]
    ELSE IF resp.kind = "object"
    THEN [ how |-> "raise", exc |-> "KeyError" ]     \* data[0] of a dict
    ELSE IF resp.items = <<>>
    THEN [ how |-> "fall_through" ]                  \* if data: is false
    ELSE IF ~({"lat", "lon"} \subseteq DOMAIN resp.items[1])
    THEN [ how |-> "raise", exc |-> "KeyError" ]
    ELSE [ how |-> "return",
           value |-> resp.items[1].lat \o "," \o resp.items[1].lon ]

\* A variant of get_coordinates whose except clause names the exceptions of
\* requests only.
get_coordinates_RequestsOnly(place, resp) ==
    LET body == GeoTryBody(place, resp)
    IN IF body.how = "return"
       THEN [ exc |-> None, value |-> body.value ]
       ELSE IF body.how = "raise" /\ body.exc # "RequestException"
       THEN [ exc |-> body.exc, value |-> "" ]
       ELSE [ exc |-> None, value |-> FALLBACK_COORDINATES ]

\* the bare except: catches every exception and passes
get_coordinates(place, resp) ==
    LET body == GeoTryBody(place, resp)
    IN IF body.how = "return"
       THEN [ exc |-> None, value |-> body.value ]
       ELSE [ exc |-> None, value |-> FALLBACK_COORDINATES ]

\* ------------------------------------------------------------------------
\* Extraction and merge
\* ------------------------------------------------------------------------

\* A variant of FormatDatetime whose default time is midnight.
FormatDatetime_Midnight(dm, tm) ==
    LET hour == IF tm.matched
                THEN IF tm.ampm = "ohu" /\ int(tm.h) < 12
                     THEN int(tm.h) + 12
                     ELSE int(tm.h)
                ELSE 0
        minute == IF tm.matched /\ tm.mm # <<>> THEN int(tm.mm) ELSE 0
    IN Join(dm.y) \o "-" \o Fmt02d(int(dm.m)) \o "-" \o Fmt02d(int(dm.d))
         \o "T" \o Fmt02d(hour) \o ":" \o Fmt02d(minute) \o ":00+09:00"

\* A variant of FormatDatetime that adds 12 to every hour up to 12 after 오후.
FormatDatetime_NoonAdds(dm, tm) ==
    LET hour == IF tm.matched
                THEN IF tm.ampm = "ohu" /\ int(tm.h) <= 12
                     THEN int(tm.h) + 12
                     ELSE int(tm.h)
                ELSE 12
        minute == IF tm.matched /\ tm.mm # <<>> THEN int(tm.mm) ELSE 0
    IN Join(dm.y) \o "-" \o Fmt02d(int(dm.m)) \o "-" \o Fmt02d(int(dm.d))
         \o "T" \o Fmt02d(hour) \o ":" \o Fmt02d(minute) \o ":00+09:00"

\* the datetime that lines 99-106 store for a matched date
FormatDatetime(dm, tm) ==
    LET hour == IF tm.matched
                THEN IF tm.ampm = "ohu" /\ int(tm.h) < 12
                     THEN int(tm.h) + 12
                     ELSE int(tm.h)
                ELSE 12
        minute == IF tm.matched /\ tm.mm # <<>> THEN int(tm.mm) ELSE 0
    IN Join(dm.y) \o "-" \o Fmt02d(int(dm.m)) \o "-" \o Fmt02d(int(dm.d))
         \o "T" \o Fmt02d(hour) \o ":" \o Fmt02d(minute) \o ":00+09:00"

\* In the operators below, facts is Of[user_input]: what the predicates and
\* the extractors find in the trimmed message.

\* A variant of StoreDatetime that also stores a time found without a date,
\* on the first day of the year 2000.
StoreDatetime_TimeAlone(result, facts) ==
    IF facts.date_match.matched
    THEN Put(result, "datetime",
             FormatDatetime(facts.date_match, facts.time_match))
    ELSE IF facts.time_match.matched
    THEN Put(result, "datetime",
             FormatDatetime([ matched |-> TRUE, y |-> <<"2", "0", "0", "0">>,
                              m |-> <<"1">>, d |-> <<"1">> ],
                            facts.time_match))
    ELSE result

\* lines 99-106: the datetime is stored when a date is found
StoreDatetime(result, facts) ==
    IF facts.date_match.matched
    THEN Put(result, "datetime",
             FormatDatetime(facts.date_match, facts.time_match))
    ELSE result

\* A variant of StorePlace that stores the coordinates only when the lookup
\* found some.
StorePlace_FoundOnly(result, place, coordinates) ==
    IF place # << >>
    THEN IF coordinates # FALLBACK_COORDINATES
         THEN Put(Put(result, "place", place), "coordinates", coordinates)
         ELSE Put(result, "place", place)
    ELSE result

\* lines 108-111: place and coordinates are stored together
StorePlace(result, place, coordinates) ==
    IF place # << >>
    THEN Put(Put(result, "place", place), "coordinates", coordinates)
    ELSE result

\* lines 113-115
StoreGender(result, gender) ==
    IF gender # None THEN Put(result, "usergender", gender) ELSE result

\* A variant of StoreBirthdaytype that forgets the previous value.
StoreBirthdaytype_Recomputed(result, facts) ==
    Put(result, "birthdaytype",
        IF facts.eumryeog THEN EUMRYEOG ELSE YANGRYEOG)

\* line 117
StoreBirthdaytype(result, facts) ==
    Put(result, "birthdaytype",
        IF facts.eumryeog THEN EUMRYEOG
        ELSE Get(result, "birthdaytype", YANGRYEOG))

\* line 118
StoreGochradatetime(result, facts, now) ==
    Put(result, "gochradatetime", facts.resolve_gochra_datetime[now])

\* lines 96-119 after the geocoding lookup: coords is its result, resp the
\* backend's answer.  The result is the merged dict, the geocoding lookups
\* made, and the exception that escapes (None when there is none).
MergeFields(facts, session, now, resp, coords) ==
    [ exc |-> IF facts.extract_place # << >> THEN coords.exc ELSE None,
      value |->
        IF facts.extract_place # << >> /\ coords.exc # None
        THEN session
        ELSE StoreGochradatetime(
               StoreBirthdaytype(
                 StoreGender(
                   StorePlace(StoreDatetime(session, facts),
                              facts.extract_place, coords.value),
                   facts.extract_gender),
                 facts),
               facts, now),
      geo |-> IF facts.extract_place # << >>
              THEN << [ place |-> facts.extract_place,
                        response |-> resp,
                        result |-> coords ] >>
              ELSE << >> ]

\* env.geo is the geocoding backend's answer and env.now the clock.
parse_and_store_user_info(facts, session, env) ==
    MergeFields(facts, session, env.now, env.geo,
                get_coordinates(facts.extract_place, env.geo))

\* ------------------------------------------------------------------------
\* Missing-field validator
\* ------------------------------------------------------------------------

\* Variants of required: the gender left out; place and coordinates
\* exchanged.
required_NoGender == << "datetime", "place", "coordinates" >>
required_Swapped == << "datetime", "coordinates", "place", "usergender" >>

required == << "datetime", "place", "coordinates", "usergender" >>

questions ==
    [ datetime |-> "taeeonan naljjawa siganeul allyeojuseyo.",
      place |-> "taeeonan jiyeogeul allyeojuseyo.",
      coordinates |-> "chulsaengji jeongboreul deo jeonghwaghi allyeojuseyo.",
      usergender |-> "seongbyeoreul allyeojuseyo. (namseong/yeoseong)" ]

\* [questions[k] for k in ks if k not in payload]
RECURSIVE QuestionsFor(_, _)
QuestionsFor(ks, payload) ==
    IF ks = << >> THEN << >>
    ELSE IF Head(ks) \notin DOMAIN payload
    THEN << questions[Head(ks)] >> \o QuestionsFor(Tail(ks), payload)
    ELSE QuestionsFor(Tail(ks), payload)

check_missing_fields(payload) == QuestionsFor(required, payload)

\* ------------------------------------------------------------------------
\* Astrology pipeline
\* ------------------------------------------------------------------------

\* A text of which only the length matters (the chart, the failure marker)
\* is a record of what it is and how long it is.
NoText == [ what |-> "none", len |-> 0 ]

\* What requests.post(...) and raise_for_status() can do.
ApiResponses ==
    { [ kind |-> "ok", text |-> [ what |-> "chart", len |-> 1200 ] ],
      [ kind |-> "request_exception", text |-> NoText ] }

\* What llm.invoke(...) can do.
LlmResponses ==
    { [ ok |-> TRUE, content |-> "answer", error |-> None ],
      [ ok |-> FALSE, content |-> "", error |-> "ConnectionError" ] }

call_astrology_api(payload, resp) ==
    IF resp.kind = "ok" THEN resp.text
    ELSE [ what |-> "api_failure", len |-> 40 ]

RasiMaxChars == 1500
DailyMaxChars == 1000

truncate_text(text, max_chars) ==
    IF text.len <= max_chars THEN text
    ELSE [ what |-> text.what, len |-> max_chars + 3 ]

\* One invocation of the language model: the system message, the user's
\* text, and for the pipeline the chart and the instruction template that
\* the prompt embeds.
LlmCall(system, question, chart, template) ==
    [ system |-> system, question |-> question,
      chart |-> chart, template |-> template ]

\* lines 175-184: the prompt, with the chart cut to the length of its kind
PipelinePrompt(user_input, facts, api_result) ==
    IF facts.is_rasi_analysis_request
    THEN LlmCall("system_prompt", user_input,
                 truncate_text(api_result, RasiMaxChars),
                 "rasi_analysis_prompt")
    ELSE LlmCall("system_prompt", user_input,
                 truncate_text(api_result, DailyMaxChars),
                 "daily_fortune")

\* The result: the messages sent, the backend calls made, and the exception
\* that escapes (None when there is none).
proceed_with_astrology(payload, user_input, facts, env) ==
    [ api |-> << [ payload |-> payload, response |-> env.api ] >>,
      llm |-> << [ call |-> PipelinePrompt(user_input, facts,
                                call_astrology_api(payload, env.api)),
                   ok |-> env.llm.ok ] >>,
      \* the reply is printed, not sent (render_fortune_markdown is
      \* commented out); the failure is sent
      sent |-> IF env.llm.ok THEN << >>
               ELSE << [ kind |-> "llm_error", body |-> env.llm.error ] >>,
      exc |-> None ]

\* ------------------------------------------------------------------------
\* Dialogue controller
\* ------------------------------------------------------------------------

\* cl.user_session after on_chat_start: general_mode is not set
start_chat == [ user_info |-> << >>, pending_fields |-> << >> ]

\* What one run of a handler did.
Turn(content, route, sent, geo, api, llm, exc) ==
    [ content |-> content, route |-> route, sent |-> sent,
      geo |-> geo, api |-> api, llm |-> llm, exc |-> exc ]

\* A variant of StoreQuestions that leaves outstanding questions as they
\* are instead of replacing them by the ones that remain.
StoreQuestions_Keep(store, updated, missing) ==
    Put(Put(store, "user_info", updated), "pending_fields",
        IF Get(store, "pending_fields", << >>) # << >>
        THEN Get(store, "pending_fields", << >>)
        ELSE missing)

\* A variant of StoreQuestions that stores the questions for the fields as
\* they were before the merge.
StoreQuestions_BeforeMerge(store, updated, missing) ==
    Put(Put(store, "user_info", updated), "pending_fields",
        check_missing_fields(Get(store, "user_info", << >>)))

\* lines 227-231 and 247-254: the merged fields are stored, and the
\* questions that remain (none when the pipeline runs)
StoreQuestions(store, updated, missing) ==
    Put(Put(store, "user_info", updated), "pending_fields", missing)

\* the turn of a pipeline run whose outcome is astro
PipelineTurn(content, route, geo, astro) ==
    Turn(content, route, astro.sent, geo, astro.api, astro.llm, astro.exc)

\* lines 229-234 and 248-255: the questions are sent, or the pipeline runs
AskOrProceed(content, user_input, facts, store, env, route, parsed, missing) ==
    IF parsed.exc # None
    THEN [ store |-> store,
           turn |-> Turn(content, route, << >>, parsed.geo, << >>, << >>,
                         parsed.exc) ]
    ELSE [ store |-> StoreQuestions(store, parsed.value, missing),
           turn |->
             IF missing # << >>
             THEN Turn(content, route,
                       << [ kind |-> "questions", body |-> missing ] >>,
                       parsed.geo, << >>, << >>, None)
             ELSE PipelineTurn(content, route, parsed.geo,
                               proceed_with_astrology(parsed.value,
                                                      user_input, facts,
                                                      env)) ]

\* the validator on the merged fields
Validate(content, user_input, facts, store, env, route, parsed) ==
    AskOrProceed(content, user_input, facts, store, env, route, parsed,
                 check_missing_fields(parsed.value))

\* lines 226-235 and 246-255: extraction, merge, validation, and the
\* questions or the pipeline
SlotFilling(content, user_input, facts, store, session, env, route) ==
    Validate(content, user_input, facts, store, env, route,
             parse_and_store_user_info(facts, session, env))

\* llm.invoke outside any try block, then the reply is sent
UnguardedChat(content, store, env, route, call) ==
    IF env.llm.ok
    THEN [ store |-> store,
           turn |-> Turn(content, route,
                         << [ kind |-> "llm_response",
                              body |-> env.llm.content ] >>,
                         << >>, << >>,
                         << [ call |-> call, ok |-> TRUE ] >>, None) ]
    ELSE [ store |-> store,
           turn |-> Turn(content, route, << >>, << >>, << >>,
                         << [ call |-> call, ok |-> FALSE ] >>,
                         env.llm.error) ]

\* A variant of ToggleGeneral that flips the flag instead of setting it.
ToggleGeneral_Flip(content, store) ==
    [ store |-> Put(store, "general_mode",
                    ~Get(store, "general_mode", FALSE)),
      turn |-> Turn(content, "TOGGLE_GENERAL",
                    << [ kind |-> "general_mode_notice", body |-> "" ] >>,
                    << >>, << >>, << >>, None) ]

\* lines 207-210: the flag is set and the notice sent
ToggleGeneral(content, store) ==
    [ store |-> Put(store, "general_mode", TRUE),
      turn |-> Turn(content, "TOGGLE_GENERAL",
                    << [ kind |-> "general_mode_notice", body |-> "" ] >>,
                    << >>, << >>, << >>, None) ]

\* A variant of RecallMemory that forgets the fields once it has reported
\* them.
RecallMemory_Forget(content, store) ==
    [ store |-> Put(store, "user_info", << >>),
      turn |-> Turn(content, "RECALL_MEMORY",
                    IF Get(store, "user_info", << >>) = << >>
                    THEN << [ kind |-> "no_info", body |-> << >> ] >>
                    ELSE << [ kind |-> "recall",
                              body |-> Get(store, "user_info", << >>) ] >>,
                    << >>, << >>, << >>, None) ]

\* lines 217-223: the stored fields are reported, or that there are none
RecallMemory(content, store) ==
    [ store |-> store,
      turn |-> Turn(content, "RECALL_MEMORY",
                    IF Get(store, "user_info", << >>) = << >>
                    THEN << [ kind |-> "no_info", body |-> << >> ] >>
                    ELSE << [ kind |-> "recall",
                              body |-> Get(store, "user_info", << >>) ] >>,
                    << >>, << >>, << >>, None) ]

\* A variant of Route that looks for the recall phrases before it looks at
\* the mode flag.
Route_RecallFirst(facts, store) ==
    IF facts.is_general_mode_request THEN "TOGGLE_GENERAL"
    ELSE IF facts.is_recall_request THEN "RECALL_MEMORY"
    ELSE IF Get(store, "general_mode", FALSE) THEN "GENERAL_MODE"
    ELSE IF facts.is_short_response
              /\ Get(store, "pending_fields", << >>) # << >>
    THEN "SHORT_CONTINUATION"
    ELSE IF ~facts.is_astrology_query
              /\ ~facts.is_rasi_analysis_request
    THEN "GENERAL_FALLBACK"
    ELSE "ASTROLOGY_OR_RASI"

\* A variant of Route that never looks at the mode flag once a question is
\* outstanding and the reply is short.
Route_ShortFirst(facts, store) ==
    IF facts.is_general_mode_request THEN "TOGGLE_GENERAL"
    ELSE IF facts.is_short_response
              /\ Get(store, "pending_fields", << >>) # << >>
    THEN "SHORT_CONTINUATION"
    ELSE IF Get(store, "general_mode", FALSE) THEN "GENERAL_MODE"
    ELSE IF facts.is_recall_request THEN "RECALL_MEMORY"
    ELSE IF ~facts.is_astrology_query
              /\ ~facts.is_rasi_analysis_request
    THEN "GENERAL_FALLBACK"
    ELSE "ASTROLOGY_OR_RASI"

\* A variant of Route that looks for the astrology keywords before it looks
\* at the length of the reply.
Route_KeywordsFirst(facts, store) ==
    IF facts.is_general_mode_request THEN "TOGGLE_GENERAL"
    ELSE IF Get(store, "general_mode", FALSE) THEN "GENERAL_MODE"
    ELSE IF facts.is_recall_request THEN "RECALL_MEMORY"
    ELSE IF facts.is_astrology_query \/ facts.is_rasi_analysis_request
    THEN "ASTROLOGY_OR_RASI"
    ELSE IF facts.is_short_response
              /\ Get(store, "pending_fields", << >>) # << >>
    THEN "SHORT_CONTINUATION"
    ELSE "GENERAL_FALLBACK"

\* The chain of conditions of on_message, each of which ends the turn: the
\* branch that handles the message.
Route(facts, store) ==
    IF facts.is_general_mode_request THEN "TOGGLE_GENERAL"
    ELSE IF Get(store, "general_mode", FALSE) THEN "GENERAL_MODE"
    ELSE IF facts.is_recall_request THEN "RECALL_MEMORY"
    ELSE IF facts.is_short_response
              /\ Get(store, "pending_fields", << >>) # << >>
    THEN "SHORT_CONTINUATION"
    ELSE IF ~facts.is_astrology_query
              /\ ~facts.is_rasi_analysis_request
    THEN "GENERAL_FALLBACK"
    ELSE "ASTROLOGY_OR_RASI"

\* the branch of on_message that route names
Dispatch(content, user_input, facts, store, env, route) ==
    CASE route = "TOGGLE_GENERAL" -> ToggleGeneral(content, store)
      [] route = "GENERAL_MODE" ->
           UnguardedChat(content, store, env, route,
                         LlmCall("none", user_input, NoText, "none"))
      [] route = "RECALL_MEMORY" -> RecallMemory(content, store)
      [] route = "GENERAL_FALLBACK" ->
           UnguardedChat(content, store, env, route,
                         LlmCall("time_note", user_input, NoText, "none"))
      [] OTHER ->
           SlotFilling(content, user_input, facts, store,
                       Get(store, "user_info", << >>), env, route)

\* lines 203-255 on the trimmed message
HandleInput(content, user_input, facts, store, env) ==
    Dispatch(content, user_input, facts, store, env, Route(facts, store))

\* on_message: the session after the turn and what the turn did
handle(content, store, env) ==
    HandleInput(content, strip(content), Of[strip(content)], store, env)

\* ------------------------------------------------------------------------
\* The conversation
\* ------------------------------------------------------------------------

VARIABLES
    user_session,   \* cl.user_session of the conversation
    turn,           \* what the last handler run did
    sessions,       \* cl.user_session of every conversation, when there
                    \* are several
    tasks           \* the handlers started as asynchronous tasks

vars == << user_session, turn, sessions, tasks >>

\* the accumulated fields, the outstanding questions and the mode flag
fields == Get(user_session, "user_info", << >>)
pendingFields == Get(user_session, "pending_fields", << >>)
generalMode == Get(user_session, "general_mode", FALSE)


DefaultEnv ==
    [ now |-> 3,
      geo |-> [ kind |-> "list", items |-> << >> ],
      api |-> [ kind |-> "request_exception", text |-> NoText ],
      llm |-> [ ok |-> TRUE, content |-> "answer", error |-> None ] ]

\* The environment of a turn: the clock, and an answer of each backend the
\* turn calls (a backend that is not called gives no answer).
EnvironmentsOf(probe) ==
    { [ now |-> n, geo |-> g, api |-> a, llm |-> l ] :
        n \in Clock,
        g \in IF probe.geo = << >> THEN {DefaultEnv.geo} ELSE GeoResponses,
        a \in IF probe.api = << >> THEN {DefaultEnv.api} ELSE ApiResponses,
        l \in IF probe.llm = << >> THEN {DefaultEnv.llm} ELSE LlmResponses }

Environments(content, store) ==
    EnvironmentsOf(handle(content, store, DefaultEnv).turn)

\* the record of on_chat_start
Welcome ==
    Turn(<< >>, "start_chat", << [ kind |-> "welcome", body |-> "" ] >>,
         << >>, << >>, << >>, None)

\* one conversation, whose handlers run one after the other
Init ==
    /\ user_session = start_chat
    /\ turn = Welcome
    /\ sessions = << >>
    /\ tasks = << >>

\* one message of the conversation is handled
\* the session and the record of the turn become the handler's result
Becomes(result) ==
    /\ user_session' = result.store
    /\ turn' = result.turn

Handle ==
    \E content \in Messages :
        \E env \in Environments(content, user_session) :
            /\ Becomes(handle(content, user_session, env))
            /\ UNCHANGED << sessions, tasks >>

Next == Handle

Spec == Init /\ [][Next]_vars

\* ------------------------------------------------------------------------
\* The date/time extractor on its own
\* ------------------------------------------------------------------------

\* the decimal digits of a natural number, as characters of a message
RECURSIVE DigitSeq(_)
DigitSeq(n) ==
    IF n < 10 THEN << DigitChar[n + 1] >>
    ELSE DigitSeq(n \div 10) \o << DigitChar[(n % 10) + 1] >>

\* (오전|오후)?: no marker, 오전, 오후
ParseMarkers == { << >>, OJEON, OHU }

\* (\d{1,2})시: every hour that one or two digits can write
ParseHours == 0..99

\* (?:\s*(\d{1,2})분)?: no minute, 5분, 75분
ParseMinutes == { << >>, <<"5">>, <<"7", "5">> }

\* 1976년 4월 27일 and 2001년 13월 45일
ParseDates ==
    { [ y |-> <<"1", "9", "7", "6">>, m |-> <<"4">>, d |-> <<"2", "7">> ],
      [ y |-> <<"2", "0", "0", "1">>, m |-> <<"1", "3">>,
        d |-> <<"4", "5">> ] }

\* "<date> [오전|오후 ]<h>시[ <mm>분]"
ParseText(date, marker, h, mm) ==
    DateText(date.y, date.m, date.d)
      \o (IF marker = << >> THEN << >> ELSE <<" ">> \o marker)
      \o <<" ">> \o DigitSeq(h) \o <<"h_si">>
      \o (IF mm = << >> THEN << >> ELSE <<" ">> \o mm \o <<"h_bun">>)

\* user_input of the extractor: what is written, and the text
ParseInputs ==
    { [ date |-> date, marker |-> marker, h |-> h, mm |-> mm,
        text |-> ParseText(date, marker, h, mm) ] :
      date \in ParseDates, marker \in ParseMarkers,
      h \in ParseHours, mm \in ParseMinutes }

\* a text is given to the extractor
InitParse ==
    /\ user_session = start_chat
    /\ \E input \in ParseInputs :
           turn = Turn(input.text, "user_input",
                       << >>, << >>, << >>, << >>, None)
    /\ sessions = << >>
    /\ tasks = << >>

\* updated = parse_and_store_user_info(user_input, session), stored
ParseAndStore ==
    /\ turn.route = "user_input"
    /\ user_session'
         = Put(user_session, "user_info",
               parse_and_store_user_info(TextFacts(turn.content), fields,
                                         DefaultEnv).value)
    /\ turn' = Turn(turn.content, "parse_and_store_user_info",
                    << >>, << >>, << >>, << >>, None)
    /\ UNCHANGED << sessions, tasks >>

NextParse == ParseAndStore

SpecParse == InitParse /\ [][NextParse]_vars

\* ------------------------------------------------------------------------
\* Handlers of several conversations as interleaved tasks
\* ------------------------------------------------------------------------

\* The event loop runs one task at a time and switches only where a task
\* awaits.  In on_message every await is the send of a message (lines 209,
\* 214, 219, 222, 232, 243, 251 and, through proceed_with_astrology, 193):
\* the code from line 203 to the send runs without a switch, and after the
\* send the handler returns.

Conversations == { "c1", "c2" }

\* the handlers started in a run of the model
MaxTasks == 3

\* "서울 출생", "1976년 4월 27일 사주", "일반으로 해줘"
AsyncMessages ==
    { <<"h_seo", "h_ul", " ", "h_chul", "h_saeng">>,
      DateText(<<"1", "9", "7", "6">>, <<"4">>, <<"2", "7">>)
        \o <<" ", "h_sa", "h_ju">>,
      <<"h_il", "h_ban", "h_eu", "h_ro", " ", "h_hae", "h_jwo">> }

InitAsync ==
    /\ user_session = start_chat
    /\ turn = Welcome
    /\ sessions = [ conv \in Conversations |-> start_chat ]
    /\ tasks = << >>

\* a message of a conversation arrives and its handler is started
Receive(conv, content) ==
    /\ Len(tasks) < MaxTasks
    /\ tasks' = Append(tasks, [ conv |-> conv, content |-> content,
                                pc |-> "handle", stored |-> << >> ])
    /\ UNCHANGED << user_session, turn, sessions >>

\* the task has run from line 203 to its send, or to its end when it sends
\* nothing: result is what the handler did on the session it found; what it
\* stored stays in its local variables until it returns
Suspend(i, result) ==
    /\ sessions' = [ sessions EXCEPT ![tasks[i].conv] = result.store ]
    /\ tasks' = [ tasks EXCEPT
                    ![i].pc = IF result.turn.sent # << >> THEN "send"
                              ELSE "done",
                    ![i].stored = IF result.turn.sent # << >>
                                  THEN result.store
                                  ELSE << >> ]
    /\ UNCHANGED << user_session, turn >>

RunToAwait(i) ==
    /\ tasks[i].pc = "handle"
    /\ \E env \in Environments(tasks[i].content, sessions[tasks[i].conv]) :
           Suspend(i, handle(tasks[i].content, sessions[tasks[i].conv], env))

\* A variant of AfterSend that stores once more what the handler had stored
\* before the send.
AfterSend_StoreAgain(store, stored) == stored

\* the code of on_message after a send: return, with no write to the session
AfterSend(store, stored) == store

\* the send is over and the handler returns
Resume(i) ==
    /\ tasks[i].pc = "send"
    /\ sessions' = [ sessions EXCEPT
                       ![tasks[i].conv] = AfterSend(@, tasks[i].stored) ]
    /\ tasks' = [ tasks EXCEPT ![i].pc = "done", ![i].stored = << >> ]
    /\ UNCHANGED << user_session, turn >>

NextAsync ==
    \/ \E conv \in Conversations, content \in AsyncMessages :
           Receive(conv, content)
    \/ \E i \in 1..Len(tasks) : RunToAwait(i)
    \/ \E i \in 1..Len(tasks) : Resume(i)

SpecAsync == InitAsync /\ [][NextAsync]_vars

\* ------------------------------------------------------------------------
\* Properties
\* ------------------------------------------------------------------------

\* user_input of the last turn
lastInput == strip(turn.content)

RequiredKeys == { "datetime", "place", "coordinates", "usergender" }

FieldKeys == RequiredKeys \cup { "birthdaytype", "gochradatetime" }

SlotFillingRoutes == { "SHORT_CONTINUATION", "ASTROLOGY_OR_RASI" }

\* C1: once a message that contains a general-mode toggle phrase has been
\* handled, generalMode is true, and no later turn of the conversation sets
\* it back to false, whatever the later messages are.
C1_GeneralModeSticky ==
    [][ /\ Of[lastInput'].is_general_mode_request => generalMode'
        /\ generalMode => generalMode' ]_vars

\* a turn after the toggle, handled as plain chat, with the flag still set
C1_Witness ==
    /\ generalMode
    /\ turn.route = "GENERAL_MODE"
    /\ ~is_general_mode_request(lastInput)

\* C2: the astrology backend is called in a turn if and only if the turn is
\* a slot-filling turn and the merged fields hold all four required keys
\* (the validator returns the empty list); the payload of every call holds
\* the four keys.
C2_PipelineIffReady ==
    /\ turn.api # << >>
         <=> /\ turn.route \in SlotFillingRoutes
             /\ RequiredKeys \subseteq DOMAIN fields
    /\ turn.api # << >>
         <=> /\ turn.route \in SlotFillingRoutes
             /\ check_missing_fields(fields) = << >>
    /\ turn.route \in SlotFillingRoutes => ~generalMode
    /\ \A i \in 1..Len(turn.api) :
           RequiredKeys \subseteq DOMAIN turn.api[i].payload

\* a short reply completed the fields and the backend was called
C2_Witness ==
    /\ turn.route = "SHORT_CONTINUATION"
    /\ Len(turn.api) = 1
    /\ RequiredKeys \subseteq DOMAIN turn.api[1].payload

\* what a turn of plain chat in general mode does: one call of the language
\* model with the user's text and nothing else, no lookup, no astrology
\* call, the session as it was
PlainChatStep ==
    /\ turn'.route = "GENERAL_MODE"
    /\ Len(turn'.llm) = 1
    /\ turn'.llm[1].call = LlmCall("none", lastInput', NoText, "none")
    /\ turn'.geo = << >>
    /\ turn'.api = << >>
    /\ user_session' = user_session

\* C3 as stated: whenever generalMode is true at the start of a turn, then
\* for every message, one with a toggle phrase included, the turn calls the
\* general-chat backend with the message and does no extraction and no other
\* routing.
C3_AlwaysPlainChat == [][ generalMode => PlainChatStep ]_vars

\* C3 as amended: whenever generalMode is true at the start of a turn, a
\* message without a toggle phrase is given to the general-chat backend with
\* no extraction and no other routing; a message with a toggle phrase gets
\* the mode notice only, with no backend call and the session as it was.
C3_PlainChatUnlessToggle ==
    [][ generalMode =>
          IF Of[lastInput'].is_general_mode_request
          THEN /\ turn'.route = "TOGGLE_GENERAL"
               /\ turn'.llm = << >>
               /\ turn'.geo = << >>
               /\ turn'.api = << >>
               /\ Len(turn'.sent) = 1
               /\ turn'.sent[1].kind = "general_mode_notice"
               /\ user_session' = user_session
          ELSE PlainChatStep ]_vars

\* in general mode a message full of astrology keywords went to plain chat
C3_Witness ==
    /\ generalMode
    /\ turn.route = "GENERAL_MODE"
    /\ is_astrology_query(lastInput)
    /\ Len(turn.llm) = 1

\* C4: after generalMode has become true no later turn calls the astrology
\* backend or the geocoding lookup, and fields and pendingFields keep the
\* values they had.
C4_GeneralModeFreezes ==
    [][ generalMode =>
          /\ turn'.api = << >>
          /\ turn'.geo = << >>
          /\ fields' = fields
          /\ pendingFields' = pendingFields ]_vars

\* in general mode, with the gender question outstanding, the short reply
\* that names the gender was not merged
C4_Witness ==
    /\ generalMode
    /\ turn.route = "GENERAL_MODE"
    /\ extract_gender(lastInput) # None
    /\ is_short_response(lastInput)
    /\ pendingFields # << >>
    /\ "usergender" \notin DOMAIN fields

\* the prompts of the required keys that ks lacks, in the order datetime,
\* place, coordinates, usergender
PromptsFor(ks) ==
    (IF "datetime" \in ks THEN << >> ELSE << questions.datetime >>)
      \o (IF "place" \in ks THEN << >> ELSE << questions.place >>)
      \o (IF "coordinates" \in ks THEN << >> ELSE << questions.coordinates >>)
      \o (IF "usergender" \in ks THEN << >> ELSE << questions.usergender >>)

\* the validator on every mapping over the six field keys
ValidatorOnEveryMapping ==
    \A ks \in SUBSET FieldKeys :
        check_missing_fields([ k \in ks |-> "x" ]) = PromptsFor(ks)

\* C5: for every fields mapping the validator returns one prompt for each
\* absent required key, in the order datetime, place, coordinates,
\* usergender, and nothing for birthdaytype or gochradatetime; and the
\* message "오늘 운세 봐줘" on an empty session leaves the four prompts, in
\* that order, in pendingFields.
C5_ValidatorPrompts ==
    [][ /\ ValidatorOnEveryMapping
        /\ check_missing_fields(fields') = PromptsFor(DOMAIN fields')
        /\ (fields = << >> /\ ~generalMode /\ turn'.content = FortuneToday)
             => /\ turn'.route = "ASTROLOGY_OR_RASI"
                /\ pendingFields' = << questions.datetime, questions.place,
                                       questions.coordinates,
                                       questions.usergender >> ]_vars

\* "오늘 운세 봐줘" was asked and the four questions are outstanding
C5_Witness ==
    /\ turn.content = FortuneToday
    /\ turn.route = "ASTROLOGY_OR_RASI"
    /\ Len(pendingFields) = 4
    /\ pendingFields = PromptsFor({ "birthdaytype", "gochradatetime" })
    /\ turn.sent = << [ kind |-> "questions", body |-> pendingFields ] >>

\* C6: the message "1976년 4월 27일 14시 서울에서 출생한 여자 현숙이의
\* 라시차트를 분석해 줘" on an empty session yields, in one turn, datetime
\* 1976-04-27T14:00:00+09:00, the bare place name "서울", usergender 여성,
\* birthdaytype 양력, an empty validator result, the astrology route and
\* the rasi prompt template.
C6_RasiExampleFields ==
    [][ (/\ fields = << >>
         /\ pendingFields = << >>
         /\ ~generalMode
         /\ turn'.content = RasiExample)
          => /\ turn'.route = "ASTROLOGY_OR_RASI"
             /\ fields'.datetime = "1976-04-27T14:00:00+09:00"
             /\ fields'.place = <<"h_seo", "h_ul">>
             /\ fields'.usergender = YEOSEONG
             /\ fields'.birthdaytype = YANGRYEOG
             /\ check_missing_fields(fields') = << >>
             /\ Len(turn'.llm) = 1
             /\ turn'.llm[1].call.template = "rasi_analysis_prompt" ]_vars

\* "1976년 4월 27일 사주" and "2001년 12월 07일 사주": a date of the shape
\* YYYY년 MM월 DD일 and no time
DateOnly1976 ==
    DateText(<<"1", "9", "7", "6">>, <<"4">>, <<"2", "7">>)
      \o <<" ", "h_sa", "h_ju">>

DateOnly2001 ==
    DateText(<<"2", "0", "0", "1">>, <<"1", "2">>, <<"0", "7">>)
      \o <<" ", "h_sa", "h_ju">>

\* C7: a date of the shape YYYY년 MM월 DD일 in a message without a time
\* expression sets fields.datetime to YYYY-MM-DDT12:00:00+09:00, month and
\* day padded to two digits, whatever datetime the session held before.
C7_DateWithoutTimeIsNoon ==
    /\ { DateOnly1976, DateOnly2001 } \subseteq Messages
    /\ (turn.route \in SlotFillingRoutes /\ turn.content = DateOnly1976)
         => fields.datetime = "1976-04-27T12:00:00+09:00"
    /\ (turn.route \in SlotFillingRoutes /\ turn.content = DateOnly2001)
         => fields.datetime = "2001-12-07T12:00:00+09:00"

\* the extraction ran on "1976년 4월 27일 사주" and stored noon
C7_Witness ==
    /\ turn.content = DateOnly1976
    /\ turn.route = "ASTROLOGY_OR_RASI"
    /\ ~time_match(lastInput).matched
    /\ fields.datetime = "1976-04-27T12:00:00+09:00"

\* C8: a short reply (trimmed length below 10) without toggle or recall
\* phrase, received while a question is outstanding and generalMode is
\* false, is handled as SHORT_CONTINUATION: what the extractors find in it
\* is merged into fields, pendingFields afterwards holds the prompts of the
\* required fields still missing and nothing else, its length does not
\* grow, and it is empty exactly when the astrology pipeline is invoked.
C8_ShortContinuation ==
    [][ (/\ ~generalMode
         /\ pendingFields # << >>
         /\ Len(lastInput') < 10
         /\ ~Of[lastInput'].is_general_mode_request
         /\ ~Of[lastInput'].is_recall_request)
          => /\ turn'.route = "SHORT_CONTINUATION"
             /\ DOMAIN fields \subseteq DOMAIN fields'
             /\ Of[lastInput'].extract_gender # None
                  => fields'.usergender = Of[lastInput'].extract_gender
             /\ Of[lastInput'].extract_place # << >>
                  => fields'.place = Of[lastInput'].extract_place
             /\ Of[lastInput'].date_match.matched
                  => "datetime" \in DOMAIN fields'
             /\ pendingFields' = PromptsFor(DOMAIN fields')
             /\ Len(pendingFields') <= Len(pendingFields)
             /\ pendingFields' = << >> <=> turn'.api # << >> ]_vars

\* the reply "여성" filled the gender and a shorter list of questions is
\* outstanding
C8_Witness ==
    /\ turn.route = "SHORT_CONTINUATION"
    /\ turn.content = <<"h_yeo", "h_seong">>
    /\ fields.usergender = YEOSEONG
    /\ pendingFields # << >>
    /\ Len(pendingFields) < 4
    /\ turn.sent = << [ kind |-> "questions", body |-> pendingFields ] >>

\* the lookup delivered a list whose first result has lat and lon
GeoSuccess(resp) ==
    /\ resp.kind = "list"
    /\ resp.items # << >>
    /\ { "lat", "lon" } \subseteq DOMAIN resp.items[1]

\* C9: whatever the external lookup does (network error, empty list,
\* malformed or non-list response, first result without lat/lon), the
\* geocoding adapter returns a value and does not raise: "lat,lon" of the
\* first result on success, the fallback 35.2721355,128.8452281 otherwise.
C9_GeocodingNeverRaises ==
    \A i \in 1..Len(turn.geo) :
        LET g == turn.geo[i]
        IN /\ g.result.exc = None
           /\ turn.exc = None
           /\ g.result.value = IF GeoSuccess(g.response)
                               THEN "37.5666791,126.9782914"
                               ELSE "35.2721355,128.8452281"
           /\ fields.coordinates = g.result.value

\* the lookup failed with an exception inside the adapter and the place got
\* the fallback coordinates
C9_Witness ==
    /\ Len(turn.geo) = 1
    /\ turn.geo[1].response.kind \in { "network_error", "object" }
    /\ turn.geo[1].result = [ exc |-> None, value |-> FALLBACK_COORDINATES ]
    /\ fields.place = turn.geo[1].place
    /\ fields.coordinates = FALLBACK_COORDINATES

\* C10: on every path of a turn that calls the language model (general-mode
\* chat, general fallback, astrology pipeline) a failure of the call is
\* caught and turned into an error message to the user; no turn ends with
\* an uncaught failure.
C10_LlmFailureCaught ==
    \A i \in 1..Len(turn.llm) :
        ~turn.llm[i].ok
          => /\ turn.exc = None
             /\ \E j \in 1..Len(turn.sent) : turn.sent[j].kind = "llm_error"

\* C11: every turn sends at least one message to the user, whatever the
\* message and the session are, the turn in which the astrology pipeline
\* runs and the language model answers included.
C11_EveryTurnResponds == turn.sent # << >>

\* C12: when handlers run as interleaved tasks that switch only at await
\* points, every change of a conversation's session (fields, pendingFields,
\* generalMode) is the read-modify-write of one turn of that conversation
\* on the session as it is at that moment, with no write of another turn
\* between its read and its write, so no update is lost; and a turn of one
\* conversation never changes the session of another.
C12_TurnsAreAtomic ==
    [][ \A conv \in Conversations :
          sessions'[conv] # sessions[conv]
            => \E i \in 1..Len(tasks) :
                 /\ tasks[i].conv = conv
                 /\ tasks[i].pc = "handle"
                 /\ tasks'[i].pc # "handle"
                 /\ \A other \in Conversations \ {conv} :
                        sessions'[other] = sessions[other]
                 /\ \E env \in Environments(tasks[i].content,
                                            sessions[conv]) :
                        sessions'[conv]
                          = handle(tasks[i].content, sessions[conv],
                                   env).store ]_vars

\* two handlers of one conversation are both suspended at their send, the
\* session of the conversation holds the place stored by the one and the
\* datetime stored by the other, and the other conversation's session is as
\* it was
C12_Witness ==
    \E i, j \in 1..Len(tasks) :
        /\ i # j
        /\ tasks[i].conv = tasks[j].conv
        /\ tasks[i].pc = "send"
        /\ tasks[j].pc = "send"
        /\ date_match(tasks[i].content).matched
        /\ ~date_match(tasks[j].content).matched
        /\ { "place", "datetime" }
             \subseteq DOMAIN sessions[tasks[i].conv].user_info
        /\ \A other \in Conversations \ { tasks[i].conv } :
               sessions[other] = start_chat

\* the turn leaves the key k of fields as it was: absent, or present with
\* the same value
Kept(k) ==
    /\ k \in DOMAIN fields' <=> k \in DOMAIN fields
    /\ k \in DOMAIN fields => fields'[k] = fields[k]

\* the datetime that the date and the time of a text make, tabulated
DatetimeOf ==
    [ text \in { t \in Texts : Of[t].date_match.matched } |->
        FormatDatetime(Of[text].date_match, Of[text].time_match) ]

\* "오후 3시"
TimeOnly == <<"h_o", "h_hu", " ", "3", "h_si">>

\* C13: on a slot-filling turn each of datetime, place, coordinates and
\* usergender keeps its previous value when its extractor finds nothing in
\* the message and is overwritten when a new value is found (coordinates
\* with the place); a time without a date leaves datetime unchanged; and
\* no turn removes a key from fields.
C13_FieldMerge ==
    [][ /\ DOMAIN fields \subseteq DOMAIN fields'
        /\ turn'.route \in SlotFillingRoutes
             => LET facts == Of[lastInput']
                IN /\ IF facts.date_match.matched
                      THEN fields'.datetime = DatetimeOf[lastInput']
                      ELSE Kept("datetime")
                   /\ IF facts.extract_place # << >>
                      THEN /\ fields'.place = facts.extract_place
                           /\ Len(turn'.geo) = 1
                           /\ fields'.coordinates
                                = turn'.geo[1].result.value
                      ELSE Kept("place") /\ Kept("coordinates")
                   /\ IF facts.extract_gender # None
                      THEN fields'.usergender = facts.extract_gender
                      ELSE Kept("usergender")
        /\ turn'.route \notin SlotFillingRoutes
             => \A k \in RequiredKeys : Kept(k) ]_vars

\* the reply "오후 3시" came after the date had been stored without a time:
\* the time is found, no date is, and datetime is still the noon of the date
C13_Witness ==
    /\ turn.content = TimeOnly
    /\ turn.route = "SHORT_CONTINUATION"
    /\ time_match(lastInput).matched
    /\ ~date_match(lastInput).matched
    /\ "datetime" \in DOMAIN fields
    /\ fields.datetime = "1976-04-27T12:00:00+09:00"

\* the turn called no backend: no language model, no astrology API, no
\* geocoding
NoBackendCall(t) == t.llm = << >> /\ t.api = << >> /\ t.geo = << >>

\* C14: a turn routed as RECALL_MEMORY or GENERAL_FALLBACK leaves fields,
\* pendingFields and generalMode unchanged; a TOGGLE_GENERAL turn changes
\* only generalMode; RECALL_MEMORY and TOGGLE_GENERAL call no backend; and
\* RECALL_MEMORY sends the "no info yet" message exactly when fields is
\* empty (the dump of the fields otherwise).
C14_ReadOnlyRoutes ==
    [][ /\ turn'.route \in { "RECALL_MEMORY", "GENERAL_FALLBACK" }
             => /\ fields' = fields
                /\ pendingFields' = pendingFields
                /\ generalMode' = generalMode
        /\ turn'.route = "TOGGLE_GENERAL"
             => /\ fields' = fields
                /\ pendingFields' = pendingFields
                /\ generalMode'
        /\ turn'.route \in { "RECALL_MEMORY", "TOGGLE_GENERAL" }
             => NoBackendCall(turn')
        /\ turn'.route = "RECALL_MEMORY"
             => /\ Len(turn'.sent) = 1
                /\ turn'.sent[1].kind = "no_info" <=> fields = << >>
                /\ turn'.sent[1].kind # "no_info"
                     => turn'.sent[1] = [ kind |-> "recall",
                                          body |-> fields ] ]_vars

\* the fields were reported by a recall turn and are still there
C14_Witness ==
    /\ turn.route = "RECALL_MEMORY"
    /\ fields # << >>
    /\ pendingFields # << >>
    /\ turn.sent = << [ kind |-> "recall", body |-> fields ] >>
    /\ NoBackendCall(turn)

\* "api 없이 운세 알려줘": a toggle phrase together with astrology keywords
ToggleWithKeywords ==
    <<"a", "p", "i", " ", "h_eobs", "h_i", " ", "h_un", "h_se", " ",
      "h_al", "h_ryeo", "h_jwo">>

\* the first of the five conditions that holds, in the order TOGGLE_GENERAL,
\* RECALL_MEMORY, SHORT_CONTINUATION, ASTROLOGY_OR_RASI, GENERAL_FALLBACK
FirstMatch(text, pending) ==
    IF is_general_mode_request(text) THEN "TOGGLE_GENERAL"
    ELSE IF is_recall_request(text) THEN "RECALL_MEMORY"
    ELSE IF Len(text) < 10 /\ pending # << >> THEN "SHORT_CONTINUATION"
    ELSE IF is_astrology_query(text) \/ is_rasi_analysis_request(text)
    THEN "ASTROLOGY_OR_RASI"
    ELSE "GENERAL_FALLBACK"

FirstMatchOf ==
    [ text \in Texts |->
        [ asked \in BOOLEAN |->
            FirstMatch(text, IF asked THEN << "q" >> ELSE << >>) ] ]

\* C15: with generalMode false a message is routed to exactly one of the
\* five intents, the first that matches in the order TOGGLE_GENERAL,
\* RECALL_MEMORY, SHORT_CONTINUATION (trimmed length below 10 and a question
\* outstanding), ASTROLOGY_OR_RASI, GENERAL_FALLBACK, and gets the effects
\* of that one only: a toggle phrase with astrology keywords only toggles,
\* and a short reply with no question outstanding is no continuation.
C15_FirstMatchWins ==
    [][ ~generalMode =>
          /\ turn'.route = FirstMatchOf[lastInput'][pendingFields # << >>]
          /\ Of[lastInput'].is_general_mode_request
               => /\ fields' = fields
                  /\ pendingFields' = pendingFields
                  /\ NoBackendCall(turn')
                  /\ turn'.sent = << [ kind |-> "general_mode_notice",
                                       body |-> "" ] >>
          /\ (Len(lastInput') < 10 /\ pendingFields = << >>)
               => turn'.route # "SHORT_CONTINUATION"
          /\ turn'.route \notin SlotFillingRoutes
               => fields' = fields /\ pendingFields' = pendingFields
          /\ turn'.route \notin { "GENERAL_FALLBACK", "ASTROLOGY_OR_RASI",
                                  "SHORT_CONTINUATION" }
               => turn'.llm = << >> ]_vars

\* the toggle phrase came with astrology keywords while fields were
\* missing: the turn only toggled
C15_Witness ==
    /\ turn.content = ToggleWithKeywords
    /\ is_astrology_query(lastInput)
    /\ turn.route = "TOGGLE_GENERAL"
    /\ pendingFields # << >>
    /\ NoBackendCall(turn)

\* what was written in the text given to the extractor
InputOf ==
    [ text \in { input.text : input \in ParseInputs } |->
        CHOOSE input \in ParseInputs : input.text = text ]

\* the extractor has run on the text
Parsed == turn.route = "parse_and_store_user_info"

\* a number below 100 in two digits
TwoDigits(n) == DigitChar[(n \div 10) + 1] \o DigitChar[(n % 10) + 1]

\* the hour and the minute of a stored datetime
HourOf(datetime) == SubSeq(datetime, 12, 13)
MinuteOf(datetime) == SubSeq(datetime, 15, 16)

\* C16: for every parsed hour h in 0..99 and every marker, the stored hour
\* is h + 12 with 오후 and h < 12, is 12 with 오후 and h = 12 (no double
\* add), and is h unchanged with 오전 or with no marker; a missing minute
\* is stored as 00.
C16_HourConversion ==
    Parsed =>
      /\ (InputOf[turn.content].marker = OHU /\ InputOf[turn.content].h < 12)
           => HourOf(fields.datetime)
                = TwoDigits(InputOf[turn.content].h + 12)
      /\ (InputOf[turn.content].marker = OHU /\ InputOf[turn.content].h = 12)
           => HourOf(fields.datetime) = "12"
      /\ InputOf[turn.content].marker \in { OJEON, << >> }
           => HourOf(fields.datetime) = TwoDigits(InputOf[turn.content].h)
      /\ InputOf[turn.content].mm = << >>
           => MinuteOf(fields.datetime) = "00"

\* "1976년 4월 27일 오후 12시" is stored as noon
C16_Witness ==
    /\ Parsed
    /\ InputOf[turn.content].marker = OHU
    /\ InputOf[turn.content].h = 12
    /\ InputOf[turn.content].mm = << >>
    /\ fields.datetime = "1976-04-27T12:00:00+09:00"

\* the strings that write the numbers of a range in two digits
TwoDigitsOf(range) == { TwoDigits(n) : n \in range }

\* YYYY-MM-DDTHH:MM:00+09:00 with two digits each for month, day, hour and
\* minute
HasDatetimeShape(datetime) ==
    /\ Len(datetime) = 25
    /\ \A i \in 1..4 : SubSeq(datetime, i, i) \in Digit
    /\ SubSeq(datetime, 5, 5) = "-"
    /\ SubSeq(datetime, 6, 7) \in TwoDigitsOf(0..99)
    /\ SubSeq(datetime, 8, 8) = "-"
    /\ SubSeq(datetime, 9, 10) \in TwoDigitsOf(0..99)
    /\ SubSeq(datetime, 11, 11) = "T"
    /\ HourOf(datetime) \in TwoDigitsOf(0..99)
    /\ SubSeq(datetime, 14, 14) = ":"
    /\ MinuteOf(datetime) \in TwoDigitsOf(0..99)
    /\ SubSeq(datetime, 17, 25) = ":00+09:00"

\* month in 01..12, day in 01..31, hour in 00..23, minute in 00..59
IsCivilTime(datetime) ==
    /\ SubSeq(datetime, 6, 7) \in TwoDigitsOf(1..12)
    /\ SubSeq(datetime, 9, 10) \in TwoDigitsOf(1..31)
    /\ HourOf(datetime) \in TwoDigitsOf(0..23)
    /\ MinuteOf(datetime) \in TwoDigitsOf(0..59)

\* C17: in every reachable state where fields.datetime is set, its value has
\* the shape YYYY-MM-DDTHH:MM:00+09:00 with two-digit month, day, hour and
\* minute and denotes a valid civil time (month 01..12, day 01..31, hour
\* 00..23, minute 00..59), for every message whose digits match the date
\* and time patterns.
C17_DatetimeIsValidIso ==
    "datetime" \in DOMAIN fields
      => HasDatetimeShape(fields.datetime) /\ IsCivilTime(fields.datetime)

\* "양력"
SolarReply == <<"h_yang", "h_ryeog">>

\* C18: every slot-filling turn sets birthdaytype to 음력 if the message
\* contains 음력, else to its previous value if there is one, else to 양력;
\* so birthdaytype is 양력 or 음력 once present, and once it is 음력 no
\* later message, one that says 양력 included, makes it 양력 again.
C18_BirthdaytypeLunarSticks ==
    [][ /\ turn'.route \in SlotFillingRoutes
             => fields'.birthdaytype
                  = IF Of[lastInput'].eumryeog THEN EUMRYEOG
                    ELSE IF "birthdaytype" \in DOMAIN fields
                    THEN fields.birthdaytype
                    ELSE YANGRYEOG
        /\ "birthdaytype" \in DOMAIN fields'
             => fields'.birthdaytype \in { YANGRYEOG, EUMRYEOG }
        /\ ("birthdaytype" \in DOMAIN fields
              /\ fields.birthdaytype = EUMRYEOG)
             => fields'.birthdaytype = EUMRYEOG ]_vars

\* the reply "양력" was merged into fields whose calendar was 음력, and it
\* still is
C18_Witness ==
    /\ turn.content = SolarReply
    /\ turn.route = "SHORT_CONTINUATION"
    /\ ~Contains(lastInput, <<"h_eum", "h_ryeog">>)
    /\ fields.birthdaytype = EUMRYEOG

\* C19: at the end of every turn pendingFields is empty whenever all four
\* required fields are present; otherwise it is empty (no question has been
\* asked yet: nothing is stored) or exactly the validator's output for the
\* current fields; it never holds the prompt of a field that is present.
C19_PendingIsValidatorOutput ==
    /\ RequiredKeys \subseteq DOMAIN fields => pendingFields = << >>
    /\ pendingFields # << >> => pendingFields = check_missing_fields(fields)
    /\ (pendingFields = << >> /\ ~(RequiredKeys \subseteq DOMAIN fields))
         => fields = << >>
    /\ \A k \in RequiredKeys \cap DOMAIN fields :
           \A i \in 1..Len(pendingFields) : pendingFields[i] # questions[k]

\* two turns have left the gender as the only question outstanding
C19_Witness ==
    /\ turn.route = "SHORT_CONTINUATION"
    /\ { "datetime", "place", "coordinates" } \subseteq DOMAIN fields
    /\ pendingFields = << questions.usergender >>

\* the validator's lists over datetime, place with coordinates, usergender
GroupedPrompts ==
    { (IF d THEN << questions.datetime >> ELSE << >>)
        \o (IF p THEN << questions.place, questions.coordinates >>
            ELSE << >>)
        \o (IF g THEN << questions.usergender >> ELSE << >>) :
      d \in BOOLEAN, p \in BOOLEAN, g \in BOOLEAN }

\* C20: in every reachable state fields holds the key place if and only if
\* it holds the key coordinates; the coordinates prompt is never emitted or
\* outstanding without the place prompt directly before it, and the
\* validator's output is one of the lists over datetime, place with
\* coordinates, usergender.
C20_PlaceIffCoordinates ==
    /\ "place" \in DOMAIN fields <=> "coordinates" \in DOMAIN fields
    /\ check_missing_fields(fields) \in GroupedPrompts
    /\ pendingFields \in GroupedPrompts
    /\ \A i \in 1..Len(pendingFields) :
           pendingFields[i] = questions.coordinates
             => i > 1 /\ pendingFields[i - 1] = questions.place
    /\ \A j \in 1..Len(turn.sent) :
           turn.sent[j].kind = "questions"
             => turn.sent[j].body \in GroupedPrompts

\* the lookup found nothing for the place of the message: place and the
\* fallback coordinates are stored, and date and gender are asked for
C20_Witness ==
    /\ Len(turn.geo) = 1
    /\ turn.geo[1].response = [ kind |-> "list", items |-> << >> ]
    /\ fields.place = turn.geo[1].place
    /\ fields.coordinates = FALLBACK_COORDINATES
    /\ pendingFields = << questions.datetime, questions.usergender >>

====
